---- MODULE Spec2Model ----
(***************************************************************************)
(* Realtime shipment-status pipeline of shipping-backend:                  *)
(*   init.sql trigger  ->  pg NOTIFY channel  ->  PostgresNotificationService *)
(*   ->  WebSocketService (connection registry)  ->  WebSocket clients,      *)
(* together with the /ws/shipments/:id/track route that admits clients.    *)
(*                                                                         *)
(* The specifications share the state and the operators:                   *)
(*   Spec          the running application (route handler, sockets,        *)
(*                 status updates, listener);                               *)
(*   SpecRegistry  the WebSocketService class driven through its public    *)
(*                 methods in any order, plus socket events;                *)
(*   SpecListener  the PostgresNotificationService class driven through    *)
(*                 startListening / stopListening in any order, with       *)
(*                 notifications of any payload arriving;                   *)
(*   SpecQuote     QuoteShipment.execute called with any request of a      *)
(*                 bounded set, over the cache it fills;                    *)
(*   SpecDb        UpdateShipmentStatus.execute called by two processes at *)
(*                 a time, with every request and lookup failure, over the *)
(*                 repository's transactions and the trigger;              *)
(*   SpecTracking  GetShipmentTrackingDetails.execute called with any     *)
(*                 request and lookup failure.                              *)
(***************************************************************************)
EXTENDS Integers, Sequences, FiniteSets, TLC

\* ------------------------------------------------------------------ bounds
MaxPublish == 2      \* direct notifyShipmentStatusUpdate calls (SpecRegistry)
MaxRegs == 3         \* registerConnection calls
MaxUpdates == 2      \* repository transactions begun (Spec, SpecDb)
MaxCalls == 3        \* startListening / stopListening calls (SpecListener)
MaxNotifs == 2       \* notifications sent on the channel (SpecListener)
MaxQuotes == 2
MaxTracks == 2       \* QuoteShipment.execute calls (SpecQuote)

\* ------------------------------------------------------------- input sets
Conns == {"c1", "c2"}                 \* WebSocket objects
Shipments == {"s1", "s2"}             \* rows of table shipments
ShipmentIds == Shipments \cup {"s9"}  \* ids a request may carry; s9 has no row
Users == {"u1", "u2"}
Principals == Users \cup {"u9"}      \* u9 owns no shipment
\* tracking requests (shipment id, principal): owned, foreign, owned, absent
Requests == {<<"s1", "u1">>, <<"s1", "u2">>, <<"s2", "u2">>, <<"s9", "u1">>}
StatusTypes == {"st1", "st2", "st3"}  \* rows of table status_types
PipelineStatuses == {"st1", "st2"}    \* statuses requested in Spec
StatusIds == StatusTypes \cup {"st9"} \* st9 has no row
Procs == {"p1", "p2"}                 \* execute() calls in progress
PipelineProcs == {"p1"}               \* those running in Spec, one at a time
Pool == {"k1", "k2"}                  \* clients of the pg connection pool

ShipmentUserId(s) == IF s = "s1" THEN "u1" ELSE "u2"
StatusName(st) == <<"name", st>>
StatusDescription(st) == <<"description", st>>
InitialStatus == "st1"
PublishStatuses == {"st2"}             \* statuses carried by direct notify calls

VARIABLES
  connections,   \* WebSocketService.connections: shipmentId -> Set<WebSocket>
                 \* (a Set iterates in insertion order: a duplicate-free sequence)
  readyState,    \* ws.readyState per socket
  wsListeners,   \* per socket, the shipment ids captured by its close/error listeners
  inbox,         \* data frames the client of each socket has received
  closeFrame,    \* close frame (code, reason) sent by the server, if any
  gate,          \* per socket, the position of the route handler
  phase,         \* application lifecycle: boot, ready
  current,       \* shipments.current_status_id per row
  history,       \* table shipment_status_history, in insertion order
  rowLock,       \* transaction holding the row lock of each shipment
  upd,           \* per process, the position of UpdateShipmentStatus.execute
  clock,         \* database clock
  channel,       \* per pooled client, the notifications its session has queued
  client,        \* PostgresNotificationService.client: a pooled client or null
  listenOn,      \* pooled clients whose session has LISTEN shipment_updates
  handlers,      \* per pooled client, its "notification" listeners
  leased,        \* pooled clients checked out and not released
  lastCall,      \* history: the latest startListening / stopListening call
  nCommits,      \* history: notifications emitted so far
  nUpdates,      \* history: repository transactions asked for so far
  nPublish,      \* history: direct notify calls made so far
  lastNotify,    \* history: the latest notifyShipmentStatusUpdate call
  rt,            \* history: progress of each socket through the round trip
  cache,         \* the cache service: key -> stored text
  lastQuote,     \* history: the latest QuoteShipment.execute call
  lastExec,      \* history: the latest UpdateShipmentStatus.execute call
  lastTrack      \* history: the latest GetShipmentTrackingDetails.execute call

dbVars == <<current, history, rowLock, upd, clock, channel, nCommits, nUpdates>>
listenerVars == <<client, listenOn, handlers, leased, lastCall>>
quoteVars == <<cache, lastQuote>>
traceVars == <<lastExec, lastTrack>>
appVarsButTrace ==
  <<connections, readyState, wsListeners, inbox, closeFrame, gate, phase,
    dbVars, listenerVars, nPublish, lastNotify, rt>>
appVars == <<appVarsButTrace, traceVars>>
vars == <<connections, readyState, wsListeners, inbox, closeFrame, gate, phase,
          current, history, rowLock, upd, clock, channel, client,
          listenOn, handlers, leased, lastCall, nCommits, nUpdates, nPublish,
          lastNotify, rt, cache, lastQuote, lastExec, lastTrack>>

\* ----------------------------------------------------------------- helpers
Range(f) == {f[i] : i \in DOMAIN f}
Restrict(f, D) == [x \in D |-> f[x]]
NoConn == "none"
\* a call made on a collaborator, with its arguments
Call(op, arg) == [op |-> op, arg |-> arg]

\* Set.add / Set.delete on an insertion-ordered set
SetAdd(set, x) == IF x \in Range(set) THEN set ELSE Append(set, x)
SetDelete(set, x) == SelectSeq(set, LAMBDA y : y # x)

\* subscribers of a shipment id (empty when the id is not a key)
Clients(conns, shipmentId) ==
  IF shipmentId \in DOMAIN conns THEN conns[shipmentId] ELSE <<>>
Registered(conns, ws) == {s \in DOMAIN conns : ws \in Range(conns[s])}

\* ---------------------------------------------------------- WebSocketService
registerConnection_replace(conns, shipmentId, ws) ==
  [s \in DOMAIN conns \cup {shipmentId} |->
     IF s = shipmentId THEN <<ws>> ELSE conns[s]]

registerConnection_everySet(conns, shipmentId, ws) ==
  [s \in DOMAIN conns \cup {shipmentId} |->
     IF s \in DOMAIN conns THEN SetAdd(conns[s], ws) ELSE <<ws>>]

registerConnection(conns, shipmentId, ws) ==
  LET made == IF shipmentId \in DOMAIN conns
              THEN conns
              ELSE [s \in DOMAIN conns \cup {shipmentId} |->
                      IF s = shipmentId THEN <<>> ELSE conns[s]]
  IN [made EXCEPT ![shipmentId] = SetAdd(@, ws)]

removeConnection_noDelete(conns, shipmentId, ws) == conns

removeConnection_noPrune(conns, shipmentId, ws) ==
  IF shipmentId \in DOMAIN conns
  THEN [conns EXCEPT ![shipmentId] = SetDelete(@, ws)]
  ELSE conns

removeConnection_dropSet(conns, shipmentId, ws) ==
  Restrict(conns, DOMAIN conns \ {shipmentId})

removeConnection(conns, shipmentId, ws) ==
  IF shipmentId \in DOMAIN conns
  THEN LET left == SetDelete(conns[shipmentId], ws)
       IN IF Len(left) = 0
          THEN Restrict(conns, DOMAIN conns \ {shipmentId})
          ELSE [conns EXCEPT ![shipmentId] = left]
  ELSE conns

\* the close (or error) listeners of one socket, run in attachment order
RECURSIVE RunListeners(_, _, _)
RunListeners(conns, ls, ws) ==
  IF ls = <<>> THEN conns
  ELSE RunListeners(removeConnection(conns, Head(ls), ws), Tail(ls), ws)

\* clients.forEach: send to each OPEN client in insertion order; a send that
\* throws ends the loop.  Returns the clients that were sent the message and
\* whether the call threw.
RECURSIVE ForEachSend(_, _, _)
ForEachSend(clients, rs, bad) ==
  IF clients = <<>> THEN [sent |-> {}, threw |-> FALSE, failed |-> {}]
  ELSE LET c == Head(clients) IN
       IF rs[c] # "OPEN" THEN ForEachSend(Tail(clients), rs, bad)
       ELSE IF c \in bad THEN [sent |-> {}, threw |-> TRUE, failed |-> {c}]
       ELSE LET rest == ForEachSend(Tail(clients), rs, bad)
            IN [rest EXCEPT !.sent = {c} \cup @]

notifyShipmentStatusUpdate_broadcast(conns, shipmentId, rs, bad) ==
  ForEachSend((IF "s1" \in DOMAIN conns THEN conns["s1"] ELSE <<>>)
                \o (IF "s2" \in DOMAIN conns THEN conns["s2"] ELSE <<>>),
              rs, bad)

notifyShipmentStatusUpdate(conns, shipmentId, rs, bad) ==
  IF shipmentId \in DOMAIN conns
  THEN ForEachSend(conns[shipmentId], rs, bad)
  ELSE [sent |-> {}, threw |-> FALSE, failed |-> {}]

\* ------------------------------------------------------------------ frames
\* a data frame as the client sees it; ev is the index of the event it carries
NoFrame == [kind |-> "none", body |-> <<>>, ev |-> 0]
StatusFrame(message, n) == [kind |-> "status", body |-> message, ev |-> n]
ErrorFrame(errorMessage) ==
  [kind |-> "error", body |-> [error |-> errorMessage], ev |-> 0]

\* ShipmentStatusUpdateMessage as a caller of the service builds it
ShipmentStatusUpdateMessage(shipmentId, st, ts) ==
  [shipmentId |-> shipmentId, newStatusId |-> st,
   newStatusName |-> StatusName(st), timestamp |-> ts]

\* -------------------------------------------------- round-trip bookkeeping
RtOff == [st |-> 5, sid |-> "", frame |-> NoFrame]
RtRegister(r, s, open) ==
  IF r.st = 0 /\ open THEN [r EXCEPT !.st = 1, !.sid = s] ELSE RtOff
RtBreak(r) == IF r.st = 0 THEN r ELSE RtOff
RtRemove(r, s) ==
  IF r.st = 0 THEN r
  ELSE IF r.st = 2 /\ r.sid = s THEN [r EXCEPT !.st = 3]
  ELSE RtOff
RtPublish(r, s, frame, threw) ==
  IF r.st \in {0, 5} \/ r.sid # s THEN r
  ELSE IF threw THEN RtOff
  ELSE IF r.st = 1 THEN [r EXCEPT !.st = 2, !.frame = frame]
  ELSE IF r.st = 3 THEN [r EXCEPT !.st = 4]
  ELSE RtOff

\* ------------------------------------------------------------ socket events
\* the close handshake starts (either side): readyState leaves OPEN
WsClosing(c) ==
  /\ readyState[c] = "OPEN"
  /\ readyState' = [readyState EXCEPT ![c] = "CLOSING"]
  /\ rt' = [rt EXCEPT ![c] = RtBreak(@)]
  /\ UNCHANGED <<connections, wsListeners, inbox, closeFrame, gate, phase,
                 dbVars, listenerVars, nPublish, lastNotify,
                 quoteVars, traceVars>>

\* the socket closes: "close" is emitted once, to the listeners attached so far
WsClose(c) ==
  /\ readyState[c] \in {"OPEN", "CLOSING"}
  /\ readyState' = [readyState EXCEPT ![c] = "CLOSED"]
  /\ connections' = RunListeners(connections, wsListeners[c], c)
  /\ rt' = [rt EXCEPT ![c] = RtBreak(@)]
  /\ UNCHANGED <<wsListeners, inbox, closeFrame, gate, phase,
                 dbVars, listenerVars, nPublish, lastNotify,
                 quoteVars, traceVars>>

\* the socket fails: "error" is emitted to the listeners attached so far and
\* the socket starts closing
WsError(c) ==
  /\ readyState[c] = "OPEN"
  /\ readyState' = [readyState EXCEPT ![c] = "CLOSING"]
  /\ connections' = RunListeners(connections, wsListeners[c], c)
  /\ rt' = [rt EXCEPT ![c] = RtBreak(@)]
  /\ UNCHANGED <<wsListeners, inbox, closeFrame, gate, phase,
                 dbVars, listenerVars, nPublish, lastNotify,
                 quoteVars, traceVars>>

\* ------------------------------------------- the service's methods as steps
Register(shipmentId, ws) ==
  /\ connections' = registerConnection(connections, shipmentId, ws)
  /\ wsListeners' = [wsListeners EXCEPT ![ws] = Append(@, shipmentId)]

\* one notifyShipmentStatusUpdate call, applied to the clients' inboxes and to
\* the record of the latest call
PublishOnce(st, shipmentId, frame, bad) ==
  LET r == notifyShipmentStatusUpdate(connections, shipmentId, readyState, bad)
  IN [inbox |-> [c \in Conns |->
                   IF c \in r.sent THEN Append(st.inbox[c], frame)
                   ELSE st.inbox[c]],
      lastNotify |-> [n |-> st.lastNotify.n + 1, sid |-> shipmentId,
                      frame |-> frame, bad |-> bad, failed |-> r.failed]]

\* the calls made one after another by the listeners of one event; bads[i] is
\* the set of sends that throw in the i-th call
RECURSIVE PublishAll(_, _, _, _)
PublishAll(st, shipmentId, frame, bads) ==
  IF Len(bads) = 0 THEN st
  ELSE PublishAll(PublishOnce(st, shipmentId, frame, Head(bads)),
                  shipmentId, frame, Tail(bads))

Publish(shipmentId, frame, bad) ==
  LET r == PublishAll([inbox |-> inbox, lastNotify |-> lastNotify],
                      shipmentId, frame, <<bad>>)
  IN /\ inbox' = r.inbox
     /\ lastNotify' = r.lastNotify

\* sockets of a shipment that a publish sends to
OpenClients(shipmentId) ==
  {c \in Range(Clients(connections, shipmentId)) : readyState[c] = "OPEN"}
\* the sends that throw in one publish: none, or the send to one socket (the
\* loop ends at the first throw, so no second one is ever seen)
BadSends(shipmentId) == {{}} \cup {{c} : c \in OpenClients(shipmentId)}

\* registerConnection calls made so far (each attaches one listener pair)
NumRegs == Len(wsListeners["c1"]) + Len(wsListeners["c2"])

\* socket objects are interchangeable: they come into being in a fixed order
ApiOpen(c) ==
  /\ readyState[c] = "NONE"
  /\ c = "c2" => readyState["c1"] # "NONE"
  /\ readyState' = [readyState EXCEPT ![c] = "OPEN"]
  /\ UNCHANGED <<connections, wsListeners, inbox, closeFrame, gate, phase,
                 dbVars, listenerVars, nPublish, lastNotify, rt,
                 quoteVars, traceVars>>

ApiRegister(shipmentId, ws) ==
  /\ readyState[ws] # "NONE"
  /\ NumRegs < MaxRegs
  /\ Register(shipmentId, ws)
  /\ rt' = [rt EXCEPT ![ws] = RtRegister(@, shipmentId, readyState[ws] = "OPEN")]
  /\ UNCHANGED <<readyState, inbox, closeFrame, gate, phase,
                 dbVars, listenerVars, nPublish, lastNotify,
                 quoteVars, traceVars>>

ApiRemove(shipmentId, ws) ==
  /\ readyState[ws] # "NONE"
  /\ connections' = removeConnection(connections, shipmentId, ws)
  /\ rt' = [rt EXCEPT ![ws] = RtRemove(@, shipmentId)]
  /\ UNCHANGED <<readyState, wsListeners, inbox, closeFrame, gate, phase,
                 dbVars, listenerVars, nPublish, lastNotify,
                 quoteVars, traceVars>>

ApiNotify(shipmentId, st) ==
  /\ nPublish < MaxPublish
  /\ nPublish' = nPublish + 1
  /\ LET frame == StatusFrame(ShipmentStatusUpdateMessage(shipmentId, st,
                                                           nPublish + 1),
                               nPublish + 1)
     IN \E bad \in BadSends(shipmentId) :
          /\ Publish(shipmentId, frame, bad)
          /\ rt' = [c \in Conns |->
                      RtPublish(rt[c], shipmentId, frame, bad # {})]
  /\ UNCHANGED <<connections, readyState, wsListeners, closeFrame, gate, phase,
                 dbVars, listenerVars,
                 quoteVars, traceVars>>

\* the round trip is followed on sockets driven through the methods above;
\* a socket the route handler registers is outside it
RtSkip(r) == IF r.st = 0 THEN r ELSE RtOff

\* ------------------------------------------- GetShipmentTrackingDetails
Null == [id |-> "null", userId |-> ""]
\* ShipmentRepository.findById over the rows of table shipments
findById(shipmentId) ==
  IF shipmentId \in Shipments
  THEN [id |-> shipmentId, userId |-> ShipmentUserId(shipmentId)]
  ELSE Null

\* outcome of each repository call of one execute(): at most one of them
\* throws; the foreign keys of table shipments keep both cities present
Lookups == {"shipment", "history", "statuses", "status", "originCity",
            "destinationCity"}
LookupOutcomes ==
  {[l \in Lookups |-> IF l = t THEN "throws" ELSE "ok"] :
     t \in Lookups \cup {"none"}}

Thrown == [ok |-> FALSE, error |-> "Error", message |-> "query failed"]
NotFoundError(message) ==
  [ok |-> FALSE, error |-> "NotFoundError", message |-> message]
AuthorizationError(message) ==
  [ok |-> FALSE, error |-> "AuthorizationError", message |-> message]

execute(shipmentId, userId, lk) ==
  LET shipment == findById(shipmentId) IN
  IF lk["shipment"] = "throws" THEN Thrown
  ELSE IF shipment = Null THEN NotFoundError("Shipment not found")
  ELSE IF shipment.userId # userId
       THEN AuthorizationError("Access denied to this shipment's details")
  ELSE IF lk["history"] = "throws" THEN Thrown
  ELSE IF lk["statuses"] = "throws" THEN Thrown
  ELSE IF lk["status"] = "throws" THEN Thrown
  ELSE IF lk["originCity"] = "throws" THEN Thrown
  ELSE IF lk["originCity"] = "absent"
       THEN NotFoundError("Origin city for shipment not found")
  ELSE IF lk["destinationCity"] = "throws" THEN Thrown
  ELSE IF lk["destinationCity"] = "absent"
       THEN NotFoundError("Destination city for shipment not found")
  ELSE [ok |-> TRUE, error |-> "", message |-> ""]

\* the repository calls execute() makes, in order
trackingLookups_historyFirst(shipmentId, userId, lk) ==
  LET all == <<"shipment.findById", "history.findByShipmentId",
               "status.findAll", "status.findById", "city.findById",
               "city.findById">>
      name == <<"shipment", "history", "statuses", "status", "originCity",
                "destinationCity">>
      bad == {i \in 1..6 : lk[name[i]] # "ok"}
      stop == IF lk["shipment"] = "throws" THEN 1
              ELSE IF bad = {} THEN 6
              ELSE CHOOSE i \in bad : \A j \in bad : i <= j
  IN SubSeq(all, 1, stop)

trackingLookups(shipmentId, userId, lk) ==
  LET all == <<"shipment.findById", "history.findByShipmentId",
               "status.findAll", "status.findById", "city.findById",
               "city.findById">>
      name == <<"shipment", "history", "statuses", "status", "originCity",
                "destinationCity">>
      bad == {i \in 1..6 : lk[name[i]] # "ok"}
      shipment == findById(shipmentId)
      stop == IF lk["shipment"] = "throws" THEN 1
              ELSE IF shipment = Null THEN 1
              ELSE IF shipment.userId # userId THEN 1
              ELSE IF bad = {} THEN 6
              ELSE CHOOSE i \in bad : \A j \in bad : i <= j
  IN SubSeq(all, 1, stop)

NoTrack == [n |-> 0, shipmentId |-> "", userId |-> "", lk |-> <<>>,
            outcome |-> <<>>, lookups |-> <<>>]

\* one execute() call of the tracking use case
Track(shipmentId, userId, lk) ==
  /\ lastTrack.n < MaxTracks
  /\ lastTrack' = [n |-> lastTrack.n + 1, shipmentId |-> shipmentId,
                   userId |-> userId, lk |-> lk,
                   outcome |-> execute(shipmentId, userId, lk),
                   lookups |-> trackingLookups(shipmentId, userId, lk)]
  /\ UNCHANGED <<appVarsButTrace, quoteVars, lastExec>>

\* what findById handed to execute(), for the record
Found(shipmentId, userId, lk) ==
  IF lk["shipment"] = "throws" THEN "threw"
  ELSE IF findById(shipmentId) = Null THEN "absent"
  ELSE IF findById(shipmentId).userId # userId THEN "foreign"
  ELSE "owned"

\* ------------------------------------------- route /ws/shipments/:id/track
\* try { await execute(...); registerConnection(...) } catch { ... }
websocketRoutes_registerAnyway(conns, shipmentId, ws, ok) ==
  registerConnection(conns, shipmentId, ws)

websocketRoutes(conns, shipmentId, ws, ok) ==
  IF ok THEN registerConnection(conns, shipmentId, ws) ELSE conns

\* data frames the catch branch sends before connection.close(1008, ...)
rejectionData_twice(errorMessage) ==
  <<ErrorFrame(errorMessage), ErrorFrame(errorMessage)>>

rejectionData(errorMessage) == <<ErrorFrame(errorMessage)>>

\* a client opens the tracking socket; fastify.authenticate has verified the
\* principal; the handler starts and awaits execute()
Connect(c, shipmentId, userId) ==
  /\ phase = "ready"
  /\ readyState[c] = "NONE"
  /\ c = "c2" => readyState["c1"] # "NONE"
  /\ readyState' = [readyState EXCEPT ![c] = "OPEN"]
  /\ gate' = [gate EXCEPT ![c] = [@ EXCEPT !.pc = "auth",
                                           !.shipmentId = shipmentId,
                                           !.userId = userId]]
  /\ UNCHANGED <<connections, wsListeners, inbox, closeFrame, phase,
                 dbVars, listenerVars, nPublish, lastNotify, rt,
                 quoteVars, traceVars>>

\* execute() settles and the handler runs to its end
GateHandler(c) ==
  /\ gate[c].pc = "auth"
  /\ \E lk \in LookupOutcomes :
       LET sid == gate[c].shipmentId
           r == execute(sid, gate[c].userId, lk)
           open == readyState[c] = "OPEN"
       IN /\ connections' = websocketRoutes(connections, sid, c, r.ok)
          /\ wsListeners' = IF r.ok
                            THEN [wsListeners EXCEPT ![c] = Append(@, sid)]
                            ELSE wsListeners
          /\ rt' = IF r.ok THEN [rt EXCEPT ![c] = RtOff] ELSE rt
          /\ inbox' = IF ~r.ok /\ open
                      THEN [inbox EXCEPT ![c] = @ \o rejectionData(r.message)]
                      ELSE inbox
          /\ closeFrame' = IF ~r.ok /\ open
                           THEN [closeFrame EXCEPT
                                   ![c] = [code |-> 1008, reason |-> r.message]]
                           ELSE closeFrame
          /\ readyState' = IF ~r.ok /\ open
                           THEN [readyState EXCEPT ![c] = "CLOSING"]
                           ELSE readyState
          /\ gate' = [gate EXCEPT
                        ![c] = [@ EXCEPT
                                  !.pc = IF r.ok THEN "registered" ELSE "rejected",
                                  !.found = Found(sid, gate[c].userId, lk),
                                  !.error = r.error,
                                  !.message = r.message]]
  /\ UNCHANGED <<phase, dbVars, listenerVars, nPublish, lastNotify,
                 quoteVars, traceVars>>

\* ------------------------------------------------- UpdateShipmentStatus
\* the repository calls of execute() that fail, if any
UpdFaults == {{}, {"findShipment"}, {"findStatus"}}

\* execute() resolves with no value
Void == [ok |-> TRUE, error |-> "", message |-> ""]

\* execute() up to the call of updateStatus: both lookups and the comparison;
\* cur is column current_status_id as findById reads it
updateShipmentStatus_noCompare(shipmentId, newStatusId, cur, faults) ==
  LET c1 == <<Call("shipment.findById", shipmentId)>>
      c2 == Append(c1, Call("status.findById", newStatusId))
      c3 == Append(c2, Call("shipment.updateStatus", <<shipmentId, newStatusId>>))
  IN IF "findShipment" \in faults
     THEN [outcome |-> Thrown, calls |-> c1, invoke |-> FALSE]
     ELSE IF shipmentId \notin Shipments
     THEN [outcome |-> NotFoundError("Shipment not found"), calls |-> c1,
           invoke |-> FALSE]
     ELSE IF "findStatus" \in faults
     THEN [outcome |-> Thrown, calls |-> c2, invoke |-> FALSE]
     ELSE IF newStatusId \notin StatusTypes
     THEN [outcome |-> NotFoundError("Shipment status not found"),
           calls |-> c2, invoke |-> FALSE]
     ELSE [outcome |-> Void, calls |-> c3, invoke |-> TRUE]

updateShipmentStatus_noStatusCheck(shipmentId, newStatusId, cur, faults) ==
  LET c1 == <<Call("shipment.findById", shipmentId)>>
      c2 == Append(c1, Call("status.findById", newStatusId))
      c3 == Append(c2, Call("shipment.updateStatus", <<shipmentId, newStatusId>>))
  IN IF "findShipment" \in faults
     THEN [outcome |-> Thrown, calls |-> c1, invoke |-> FALSE]
     ELSE IF shipmentId \notin Shipments
     THEN [outcome |-> NotFoundError("Shipment not found"), calls |-> c1,
           invoke |-> FALSE]
     ELSE IF "findStatus" \in faults
     THEN [outcome |-> Thrown, calls |-> c2, invoke |-> FALSE]
     ELSE IF cur[shipmentId] = newStatusId
     THEN [outcome |-> Void, calls |-> c2, invoke |-> FALSE]
     ELSE [outcome |-> Void, calls |-> c3, invoke |-> TRUE]

updateShipmentStatus(shipmentId, newStatusId, cur, faults) ==
  LET c1 == <<Call("shipment.findById", shipmentId)>>
      c2 == Append(c1, Call("status.findById", newStatusId))
      c3 == Append(c2, Call("shipment.updateStatus", <<shipmentId, newStatusId>>))
  IN IF "findShipment" \in faults
     THEN [outcome |-> Thrown, calls |-> c1, invoke |-> FALSE]
     ELSE IF shipmentId \notin Shipments
     THEN [outcome |-> NotFoundError("Shipment not found"), calls |-> c1,
           invoke |-> FALSE]
     ELSE IF "findStatus" \in faults
     THEN [outcome |-> Thrown, calls |-> c2, invoke |-> FALSE]
     ELSE IF newStatusId \notin StatusTypes
     THEN [outcome |-> NotFoundError("Shipment status not found"),
           calls |-> c2, invoke |-> FALSE]
     ELSE IF cur[shipmentId] = newStatusId
     THEN [outcome |-> Void, calls |-> c2, invoke |-> FALSE]
     ELSE [outcome |-> Void, calls |-> c3, invoke |-> TRUE]

NoExec == [shipmentId |-> "", newStatusId |-> "", faults |-> {},
           outcome |-> <<>>, calls |-> <<>>]

\* one execute() call, up to the point where updateStatus takes over; seen
\* is the number of history rows at the time the shipment was read
UpdExecute(p, shipmentId, newStatusId, faults) ==
  /\ phase = "ready"
  /\ upd[p].pc = "idle"
  /\ p = "p2" => upd["p1"].pc # "idle"
  /\ nUpdates < MaxUpdates
  /\ LET r == updateShipmentStatus(shipmentId, newStatusId, current, faults)
     IN /\ lastExec' = [shipmentId |-> shipmentId, newStatusId |-> newStatusId,
                        faults |-> faults, outcome |-> r.outcome,
                        calls |-> r.calls]
        /\ IF r.invoke
           THEN /\ nUpdates' = nUpdates + 1
                /\ upd' = [upd EXCEPT ![p] =
                             [pc |-> "call", shipmentId |-> shipmentId,
                              newStatusId |-> newStatusId, start |-> 0,
                              fired |-> FALSE, seen |-> Len(history)]]
           ELSE UNCHANGED <<upd, nUpdates>>
  /\ UNCHANGED <<connections, readyState, wsListeners, inbox, closeFrame, gate,
                 phase, current, history, rowLock, clock, channel, nCommits,
                 listenerVars, nPublish, lastNotify, rt,
                 quoteVars, lastTrack>>

\* PostgresShipmentRepository.updateStatus: BEGIN
TxBegin(p) ==
  /\ upd[p].pc = "call"
  /\ clock' = clock + 1
  /\ upd' = [upd EXCEPT ![p] = [@ EXCEPT !.pc = "begun", !.start = clock + 1]]
  /\ UNCHANGED <<connections, readyState, wsListeners, inbox, closeFrame, gate,
                 phase, current, history, rowLock, channel, nCommits, nUpdates,
                 listenerVars, nPublish, lastNotify, rt,
                 quoteVars, traceVars>>

\* UPDATE shipments SET current_status_id: waits for the row lock, then the
\* AFTER UPDATE trigger compares OLD and NEW
TxUpdate_alwaysFires(p) ==
  /\ upd[p].pc = "begun"
  /\ rowLock[upd[p].shipmentId] = "free"
  /\ rowLock' = [rowLock EXCEPT ![upd[p].shipmentId] = p]
  /\ upd' = [upd EXCEPT ![p] = [@ EXCEPT !.pc = "updated", !.fired = TRUE]]
  /\ UNCHANGED <<connections, readyState, wsListeners, inbox, closeFrame, gate,
                 phase, current, history, clock, channel, nCommits, nUpdates,
                 listenerVars, nPublish, lastNotify, rt,
                 quoteVars, traceVars>>

TxUpdate_neverFires(p) ==
  /\ upd[p].pc = "begun"
  /\ rowLock[upd[p].shipmentId] = "free"
  /\ rowLock' = [rowLock EXCEPT ![upd[p].shipmentId] = p]
  /\ upd' = [upd EXCEPT ![p] = [@ EXCEPT !.pc = "updated", !.fired = FALSE]]
  /\ UNCHANGED <<connections, readyState, wsListeners, inbox, closeFrame, gate,
                 phase, current, history, clock, channel, nCommits, nUpdates,
                 listenerVars, nPublish, lastNotify, rt,
                 quoteVars, traceVars>>

TxUpdate(p) ==
  /\ upd[p].pc = "begun"
  /\ rowLock[upd[p].shipmentId] = "free"
  /\ rowLock' = [rowLock EXCEPT ![upd[p].shipmentId] = p]
  /\ upd' = [upd EXCEPT ![p] =
               [@ EXCEPT !.pc = "updated",
                         !.fired = current[upd[p].shipmentId] # upd[p].newStatusId]]
  /\ UNCHANGED <<connections, readyState, wsListeners, inbox, closeFrame, gate,
                 phase, current, history, clock, channel, nCommits, nUpdates,
                 listenerVars, nPublish, lastNotify, rt,
                 quoteVars, traceVars>>

\* PostgresShipmentRepository.update: one transaction that rewrites owner,
\* route and package columns of a row. Its UPDATE waits for the row lock; the
\* trigger finds current_status_id as it was and does nothing.
Update(shipmentId) ==
  /\ nUpdates < MaxUpdates
  /\ rowLock[shipmentId] = "free"
  /\ nUpdates' = nUpdates + 1
  /\ clock' = clock + 1
  /\ UNCHANGED <<connections, readyState, wsListeners, inbox, closeFrame, gate,
                 phase, current, history, rowLock, upd, channel, nCommits,
                 listenerVars, nPublish, lastNotify, rt,
                 quoteVars, traceVars>>

\* json_build_object(...) of log_shipment_status_change
TriggerPayload(shipmentId, st, ts) ==
  [shipmentId |-> shipmentId, statusId |-> st, statusName |-> StatusName(st),
   statusDescription |-> StatusDescription(st), timestamp |-> ts]

\* the payload text of a notification: a JSON document, text that is not
\* JSON, or the empty string
JsonText(obj) == [kind |-> "json", obj |-> obj]
InvalidText == [kind |-> "invalid", obj |-> <<>>]
EmptyText == [kind |-> "empty", obj |-> <<>>]

\* pg_notify: notifications reach a listening session in commit order
Emit_prepend(ch, n) == <<n>> \o ch

Emit(ch, n) == Append(ch, n)

\* every session that has LISTEN in force gets the notification
Deliver(ch, listening, n) ==
  [k \in Pool |-> IF k \in listening THEN Emit(ch[k], n) ELSE ch[k]]

\* COMMIT: the row, the history row and the notification become visible
TxCommit(p) ==
  LET s == upd[p].shipmentId
      st == upd[p].newStatusId
  IN /\ upd[p].pc = "updated"
     /\ current' = [current EXCEPT ![s] = st]
     /\ rowLock' = [rowLock EXCEPT ![s] = "free"]
     /\ history' = IF upd[p].fired
                   THEN Append(history, [shipmentId |-> s, statusId |-> st,
                                         timestamp |-> upd[p].start])
                   ELSE history
     /\ nCommits' = IF upd[p].fired THEN nCommits + 1 ELSE nCommits
     /\ channel' = IF upd[p].fired
                   THEN Deliver(channel, listenOn,
                                [payload |->
                                   JsonText(TriggerPayload(s, st, upd[p].start)),
                                 ev |-> nCommits + 1])
                   ELSE channel
     /\ upd' = [upd EXCEPT ![p] = [@ EXCEPT !.pc = "idle"]]
     /\ UNCHANGED <<connections, readyState, wsListeners, inbox, closeFrame,
                    gate, phase, clock, nUpdates, listenerVars, nPublish,
                    lastNotify, rt, quoteVars, traceVars>>

\* ------------------------------------------- PostgresNotificationService
\* the object literal the handler passes on, as JSON.stringify renders it: a
\* property read from a field the payload lacks is undefined and is left out
MessageFields == {"shipmentId", "newStatusId", "newStatusName", "timestamp"}
HandlerMessage(payload) ==
  [f \in MessageFields \cap DOMAIN payload |-> payload[f]]

\* JSON.parse(msg.payload || "{}")
JSONparse(text) ==
  IF text.kind = "invalid" THEN [ok |-> FALSE, value |-> <<>>]
  ELSE IF text.kind = "empty" THEN [ok |-> TRUE, value |-> <<>>]
  ELSE [ok |-> TRUE, value |-> text.obj]

\* a property read that finds nothing; as an object key it is "undefined"
undefined == "undefined"

\* the "notification" listener: the publish it makes, if any
onNotification(text) ==
  LET parsed == JSONparse(text) IN
  IF ~parsed.ok
  THEN [publish |-> FALSE, shipmentId |-> undefined, message |-> <<>>]
  ELSE [publish |-> TRUE,
        shipmentId |-> IF "shipmentId" \in DOMAIN parsed.value
                       THEN parsed.value["shipmentId"] ELSE undefined,
        message |-> HandlerMessage(parsed.value)]

NoClient == "null"
NoCall == [n |-> 0, op |-> "", outcome |-> "", promise |-> "", held |-> NoClient]

\* pg.connect(): the pool hands out a client that is not checked out, an idle
\* one or a new one (clients come into being in a fixed order)
Available ==
  {k \in Pool \ leased : k = "k2" => (handlers["k1"] > 0)}

StartOutcomes == {"connectFails", "listenFails", "ok"}
Handout(outcome) == IF outcome = "connectFails" THEN {NoClient} ELSE Available

\* startListening(): connect, attach the listener, LISTEN; the catch block
\* logs whatever was thrown and the promise resolves
startListening(outcome) == "resolved"

StartCall(outcome, k) ==
  /\ client' = IF outcome = "connectFails" THEN client ELSE k
  /\ leased' = IF outcome = "connectFails" THEN leased ELSE leased \cup {k}
  /\ handlers' = IF outcome = "connectFails" THEN handlers
                 ELSE [handlers EXCEPT ![k] = @ + 1]
  /\ listenOn' = IF outcome = "ok" THEN listenOn \cup {k} ELSE listenOn
  /\ lastCall' = [n |-> lastCall.n + 1, op |-> "start", outcome |-> outcome,
                  promise |-> startListening(outcome), held |-> client]

StopOutcomes == {"ok", "unlistenFails", "connectionLost"}

\* stopListening(): nothing without a client; else UNLISTEN, release, forget
\* the client; when UNLISTEN throws, the catch block logs and the two
\* statements after it are skipped
StopCall(outcome) ==
  /\ client' = IF client # NoClient /\ outcome = "ok" THEN NoClient ELSE client
  /\ leased' = IF outcome = "ok" THEN leased \ {client} ELSE leased
  /\ listenOn' = IF client # NoClient /\ outcome \in {"ok", "connectionLost"}
                 THEN listenOn \ {client} ELSE listenOn
  /\ lastCall' = [n |-> lastCall.n + 1, op |-> "stop",
                  outcome |-> IF client = NoClient THEN "noop" ELSE outcome,
                  promise |-> "resolved", held |-> client]
  /\ UNCHANGED handlers

\* onReady: startListening(); a failure is logged and the application goes on
StartListening ==
  /\ phase = "boot"
  /\ phase' = "ready"
  /\ \E outcome \in StartOutcomes : \E k \in Handout(outcome) :
       StartCall(outcome, k)
  /\ UNCHANGED <<connections, readyState, wsListeners, inbox, closeFrame, gate,
                 dbVars, nPublish, lastNotify, rt,
                 quoteVars, traceVars>>

\* client.on("notification"): one notification reaches the client object and
\* each of its listeners handles it in turn; an exception of a publish is
\* caught and logged
OnNotification(k) ==
  /\ channel[k] # <<>>
  /\ LET n == Head(channel[k])
         h == onNotification(n.payload)
         calls == IF h.publish THEN handlers[k] ELSE 0
     IN \E bads \in [1..calls -> BadSends(h.shipmentId)] :
          LET r == PublishAll([inbox |-> inbox, lastNotify |-> lastNotify],
                              h.shipmentId, StatusFrame(h.message, n.ev), bads)
          IN /\ inbox' = r.inbox
             /\ lastNotify' = r.lastNotify
  /\ channel' = [channel EXCEPT ![k] = Tail(@)]
  /\ rt' = [c \in Conns |-> RtSkip(rt[c])]
  /\ UNCHANGED <<connections, readyState, wsListeners, closeFrame, gate, phase,
                 current, history, rowLock, upd, clock, nCommits, nUpdates,
                 listenerVars, nPublish,
                 quoteVars, traceVars>>

\* ------------------------------- the listener's methods called in any order
ApiStartListening ==
  /\ lastCall.n < MaxCalls
  /\ \E outcome \in StartOutcomes : \E k \in Handout(outcome) :
       StartCall(outcome, k)
  /\ UNCHANGED <<connections, readyState, wsListeners, inbox, closeFrame, gate,
                 phase, dbVars, nPublish, lastNotify, rt,
                 quoteVars, traceVars>>

\* the call returns when the UNLISTEN query has settled; notifications the
\* session had queued before that have reached their listeners by then
ApiStopListening ==
  /\ lastCall.n < MaxCalls
  /\ client # NoClient => channel[client] = <<>>
  /\ \E outcome \in (IF client = NoClient THEN {"ok"} ELSE StopOutcomes) :
       StopCall(outcome)
  /\ UNCHANGED <<connections, readyState, wsListeners, inbox, closeFrame, gate,
                 phase, dbVars, nPublish, lastNotify, rt,
                 quoteVars, traceVars>>

\* payload texts a session may put on the channel: what the trigger builds, a
\* document with the shipment id alone, text that is not JSON, nothing
NotifyTexts ==
  {JsonText(TriggerPayload("s1", "st2", 1)), JsonText([shipmentId |-> "s1"]),
   InvalidText, EmptyText}

\* NOTIFY shipment_updates, <text> commits in some database session
Notify(text) ==
  /\ nCommits < MaxNotifs
  /\ nCommits' = nCommits + 1
  /\ channel' = Deliver(channel, listenOn, [payload |-> text, ev |-> nCommits + 1])
  /\ UNCHANGED <<connections, readyState, wsListeners, inbox, closeFrame, gate,
                 phase, current, history, rowLock, upd, clock, nUpdates,
                 listenerVars, nPublish, lastNotify, rt,
                 quoteVars, traceVars>>

\* ------------------------------------------------------------ QuoteShipment
\* Numbers: a weight and a price per kilogram are counted in halves (3 is
\* 1.5 kg, 7 is 3.50 per kg), a length in whole centimetres, a quoted value in
\* quarters (a product of two counts of halves).  All of them are exact as
\* IEEE doubles, so the products below are the products the code computes.
volumetricFactor == 2500

Cities == {"a", "b", "c"}             \* rows of table cities
CityIds == Cities \cup {"z"}          \* z has no row
cityZoneId(id) == IF id = "a" THEN "X" ELSE IF id = "b" THEN "Y" ELSE "W"
NullCity == [id |-> "null", zoneId |-> ""]
\* CityRepository.findById
cityFindById(id) ==
  IF id \in Cities THEN [id |-> id, zoneId |-> cityZoneId(id)] ELSE NullCity

\* rows of table rates: X to Y at 10000 per kg, Y to X at 3.50 per kg
NullRate == [pricePerKg |-> 0, found |-> FALSE]
\* RateRepository.findByZoneIds
findByZoneIds(originZoneId, destinationZoneId) ==
  IF <<originZoneId, destinationZoneId>> = <<"X", "Y">>
  THEN [pricePerKg |-> 20000, found |-> TRUE]
  ELSE IF <<originZoneId, destinationZoneId>> = <<"Y", "X">>
  THEN [pricePerKg |-> 7, found |-> TRUE]
  ELSE NullRate

\* requests: city pairs, weights 1.5, 5 and 5.5 kg, three boxes
QuotePairs == {<<"a", "b">>, <<"b", "a">>, <<"a", "a">>, <<"a", "z">>,
               <<"z", "b">>, <<"a", "c">>}
QuoteWeights == {3, 10, 11}
QuoteBoxes == {<<30, 20, 15>>, <<10, 10, 10>>, <<50, 50, 10>>}
\* every package on the routes that have a rate, one package elsewhere
QuoteRequests ==
  {[originCityId |-> pr[1], destinationCityId |-> pr[2],
    packageWeightKg |-> w, packageLengthCm |-> b[1],
    packageWidthCm |-> b[2], packageHeightCm |-> b[3]] :
     pr \in {<<"a", "b">>, <<"b", "a">>}, w \in QuoteWeights, b \in QuoteBoxes}
  \cup
  {[originCityId |-> pr[1], destinationCityId |-> pr[2],
    packageWeightKg |-> 10, packageLengthCm |-> 30,
    packageWidthCm |-> 20, packageHeightCm |-> 15] : pr \in QuotePairs}

\* the awaited calls of one execute() that reject: any of the two cache
\* calls, and at most one lookup (the first rejection ends the call)
QuoteFaults ==
  {cf \cup lf : cf \in SUBSET {"cacheGet", "cacheSet"},
                lf \in {{}, {"findOrigin"}, {"findDestination"}, {"findRate"}}}

\* Math.ceil(a / b) and Math.max for non-negative counts
Ceil(a, b) == (a + b - 1) \div b
Max(a, b) == IF a >= b THEN a ELSE b

SameOriginDestinationCityError ==
  [ok |-> FALSE, error |-> "SameOriginDestinationCityError",
   message |-> "Origin and destination city must be different"]

\* a cache without entries
EmptyCache == [k \in {} |-> EmptyText]

\* the template string of the cache key
cacheKey(request) ==
  <<"quote", request.originCityId, request.destinationCityId,
    request.packageWeightKg, request.packageLengthCm, request.packageWidthCm,
    request.packageHeightCm>>

\* the check made before anything else
sameCity_never(request) == FALSE

sameCity(request) == request.originCityId = request.destinationCityId

\* "Perform calculations": the volumetric weight in whole kilograms, the
\* calculated weight in halves, the quoted value in quarters
calculate_floor(request, originCity, destinationCity, rate) ==
  LET volumetricWeight == request.packageLengthCm * request.packageWidthCm
                            * request.packageHeightCm
      volumetricWeightKg == volumetricWeight \div volumetricFactor
      calculatedWeightKg == Max(request.packageWeightKg, 2 * volumetricWeightKg)
  IN [originCityId |-> originCity.id,
      destinationCityId |-> destinationCity.id,
      packageWeightKg |-> request.packageWeightKg,
      packageLengthCm |-> request.packageLengthCm,
      packageWidthCm |-> request.packageWidthCm,
      packageHeightCm |-> request.packageHeightCm,
      calculatedWeightKg |-> calculatedWeightKg,
      quotedValue |-> calculatedWeightKg * rate.pricePerKg]

calculate_billedWeight(request, originCity, destinationCity, rate) ==
  LET volumetricWeight == request.packageLengthCm * request.packageWidthCm
                            * request.packageHeightCm
      volumetricWeightKg == Ceil(volumetricWeight, volumetricFactor)
      calculatedWeightKg == Max(request.packageWeightKg, 2 * volumetricWeightKg)
  IN [originCityId |-> originCity.id,
      destinationCityId |-> destinationCity.id,
      packageWeightKg |-> calculatedWeightKg,
      packageLengthCm |-> request.packageLengthCm,
      packageWidthCm |-> request.packageWidthCm,
      packageHeightCm |-> request.packageHeightCm,
      calculatedWeightKg |-> calculatedWeightKg,
      quotedValue |-> calculatedWeightKg * rate.pricePerKg]

calculate(request, originCity, destinationCity, rate) ==
  LET volumetricWeight == request.packageLengthCm * request.packageWidthCm
                            * request.packageHeightCm
      volumetricWeightKg == Ceil(volumetricWeight, volumetricFactor)
      calculatedWeightKg == Max(request.packageWeightKg, 2 * volumetricWeightKg)
  IN [originCityId |-> originCity.id,
      destinationCityId |-> destinationCity.id,
      packageWeightKg |-> request.packageWeightKg,
      packageLengthCm |-> request.packageLengthCm,
      packageWidthCm |-> request.packageWidthCm,
      packageHeightCm |-> request.packageHeightCm,
      calculatedWeightKg |-> calculatedWeightKg,
      quotedValue |-> calculatedWeightKg * rate.pricePerKg]

\* step 2: cacheService.get and JSON.parse inside try/catch; anything thrown
\* there, and a value that is empty or parses to nothing, leaves result null
cacheLookup_trustsValue(ch, key, faults) ==
  IF "cacheGet" \in faults \/ key \notin DOMAIN ch
  THEN [hit |-> FALSE, value |-> <<>>]
  ELSE [hit |-> TRUE, value |-> ch[key].obj]

cacheLookup(ch, key, faults) ==
  IF "cacheGet" \in faults \/ key \notin DOMAIN ch \/ ch[key].kind = "empty"
  THEN [hit |-> FALSE, value |-> <<>>]
  ELSE LET parsed == JSONparse(ch[key])
       IN [hit |-> parsed.ok, value |-> parsed.value]

\* step 4: cacheService.set(key, JSON.stringify(result), TTL) inside try/catch
cacheStore_skip(ch, key, result, faults) == ch

cacheStore(ch, key, result, faults) ==
  IF "cacheSet" \in faults THEN ch
  ELSE [k \in DOMAIN ch \cup {key} |->
          IF k = key THEN JsonText(result) ELSE ch[k]]

\* step 3: the lookups and the calculation, on a cache miss
quoteMiss_destinationFirst(request, ch, faults) ==
  LET originCity == cityFindById(request.originCityId)
      destinationCity == cityFindById(request.destinationCityId)
      rate == findByZoneIds(originCity.zoneId, destinationCity.zoneId)
      result == calculate(request, originCity, destinationCity, rate)
      key == cacheKey(request)
      c1 == <<Call("cache.get", key),
              Call("city.findById", request.destinationCityId)>>
      c2 == Append(c1, Call("city.findById", request.originCityId))
      c3 == Append(c2, Call("rate.findByZoneIds",
                            <<originCity.zoneId, destinationCity.zoneId>>))
  IN IF "findDestination" \in faults
     THEN [outcome |-> Thrown, calls |-> c1, cache |-> ch]
     ELSE IF destinationCity = NullCity
     THEN [outcome |-> NotFoundError("Destination city not found"),
           calls |-> c1, cache |-> ch]
     ELSE IF "findOrigin" \in faults
     THEN [outcome |-> Thrown, calls |-> c2, cache |-> ch]
     ELSE IF originCity = NullCity
     THEN [outcome |-> NotFoundError("Origin city not found"),
           calls |-> c2, cache |-> ch]
     ELSE IF "findRate" \in faults
     THEN [outcome |-> Thrown, calls |-> c3, cache |-> ch]
     ELSE IF ~rate.found
     THEN [outcome |->
             NotFoundError("Shipping rate not found for the specified route"),
           calls |-> c3, cache |-> ch]
     ELSE [outcome |-> [ok |-> TRUE, value |-> result],
           calls |-> Append(c3, Call("cache.set", key)),
           cache |-> cacheStore(ch, key, result, faults)]

quoteMiss(request, ch, faults) ==
  LET originCity == cityFindById(request.originCityId)
      destinationCity == cityFindById(request.destinationCityId)
      rate == findByZoneIds(originCity.zoneId, destinationCity.zoneId)
      result == calculate(request, originCity, destinationCity, rate)
      key == cacheKey(request)
      c1 == <<Call("cache.get", key),
              Call("city.findById", request.originCityId)>>
      c2 == Append(c1, Call("city.findById", request.destinationCityId))
      c3 == Append(c2, Call("rate.findByZoneIds",
                            <<originCity.zoneId, destinationCity.zoneId>>))
  IN IF "findOrigin" \in faults
     THEN [outcome |-> Thrown, calls |-> c1, cache |-> ch]
     ELSE IF originCity = NullCity
     THEN [outcome |-> NotFoundError("Origin city not found"),
           calls |-> c1, cache |-> ch]
     ELSE IF "findDestination" \in faults
     THEN [outcome |-> Thrown, calls |-> c2, cache |-> ch]
     ELSE IF destinationCity = NullCity
     THEN [outcome |-> NotFoundError("Destination city not found"),
           calls |-> c2, cache |-> ch]
     ELSE IF "findRate" \in faults
     THEN [outcome |-> Thrown, calls |-> c3, cache |-> ch]
     ELSE IF ~rate.found
     THEN [outcome |->
             NotFoundError("Shipping rate not found for the specified route"),
           calls |-> c3, cache |-> ch]
     ELSE [outcome |-> [ok |-> TRUE, value |-> result],
           calls |-> Append(c3, Call("cache.set", key)),
           cache |-> cacheStore(ch, key, result, faults)]

\* QuoteShipment.execute
quoteExecute(request, ch, faults) ==
  IF sameCity(request)
  THEN [outcome |-> SameOriginDestinationCityError, calls |-> <<>>,
        cache |-> ch]
  ELSE LET got == cacheLookup(ch, cacheKey(request), faults)
       IN IF got.hit
          THEN [outcome |-> [ok |-> TRUE, value |-> got.value],
                calls |-> <<Call("cache.get", cacheKey(request))>>,
                cache |-> ch]
          ELSE quoteMiss(request, ch, faults)

\* aged: an entry has gone or gone bad since the latest call
NoQuote == [n |-> 0, request |-> <<>>, outcome |-> <<>>, calls |-> <<>>,
            faults |-> {}, aged |-> FALSE]

\* the awaited calls in the order execute() makes them, as names of faults
FaultAt == <<"cacheGet", "findOrigin", "findDestination", "findRate",
             "cacheSet">>

\* one execute() call, from its request to its result; only a call that is
\* made can reject
Quote(request, faults) ==
  /\ lastQuote.n < MaxQuotes
  /\ LET r == quoteExecute(request, cache, faults)
     IN /\ faults \subseteq {FaultAt[i] : i \in 1..Len(r.calls)}
        /\ cache' = r.cache
        /\ lastQuote' = [n |-> lastQuote.n + 1, request |-> request,
                         outcome |-> r.outcome, calls |-> r.calls,
                         faults |-> faults, aged |-> FALSE]
  /\ UNCHANGED appVars

\* an entry reaches its time to live (CACHE_TTL_SECONDS) and is gone
CacheExpire(key) ==
  /\ key \in DOMAIN cache
  /\ cache' = Restrict(cache, DOMAIN cache \ {key})
  /\ lastQuote' = [lastQuote EXCEPT !.aged = TRUE]
  /\ UNCHANGED appVars

\* the value stored under a key is no longer the JSON text that was written
\* (truncated, or overwritten by another writer of the cache)
CacheCorrupt(key) ==
  /\ key \in DOMAIN cache
  /\ cache[key] # InvalidText
  /\ cache' = [cache EXCEPT ![key] = InvalidText]
  /\ lastQuote' = [lastQuote EXCEPT !.aged = TRUE]
  /\ UNCHANGED appVars

\* -------------------------------------------------------------------- Init
Init ==
  /\ connections = [s \in {} |-> <<>>]
  /\ readyState = [c \in Conns |-> "NONE"]
  /\ wsListeners = [c \in Conns |-> <<>>]
  /\ inbox = [c \in Conns |-> <<>>]
  /\ closeFrame = [c \in Conns |-> [code |-> 0, reason |-> ""]]
  /\ gate = [c \in Conns |-> [pc |-> "none", shipmentId |-> "", userId |-> "",
                              found |-> "", error |-> "", message |-> ""]]
  /\ phase = "boot"
  /\ current = [s \in Shipments |-> InitialStatus]
  /\ history = [i \in 1..Cardinality(Shipments) |->
                  [shipmentId |-> IF i = 1 THEN "s1" ELSE "s2",
                   statusId |-> InitialStatus, timestamp |-> 0]]
  /\ rowLock = [s \in Shipments |-> "free"]
  /\ upd = [p \in Procs |-> [pc |-> "idle", shipmentId |-> "", newStatusId |-> "",
                             start |-> 0, fired |-> FALSE, seen |-> 0]]
  /\ clock = 0
  /\ channel = [k \in Pool |-> <<>>]
  /\ client = NoClient
  /\ listenOn = {}
  /\ handlers = [k \in Pool |-> 0]
  /\ leased = {}
  /\ lastCall = NoCall
  /\ nCommits = 0
  /\ nUpdates = 0
  /\ nPublish = 0
  /\ lastNotify = [n |-> 0, sid |-> "", frame |-> NoFrame, bad |-> {},
                   failed |-> {}]
  /\ rt = [c \in Conns |-> [st |-> 0, sid |-> "", frame |-> NoFrame]]
  /\ cache = EmptyCache
  /\ lastQuote = NoQuote
  /\ lastExec = NoExec
  /\ lastTrack = NoTrack

\* ------------------------------------------------------------ SpecRegistry
NextRegistry ==
  \/ \E c \in Conns : ApiOpen(c)
  \/ \E s \in Shipments, c \in Conns : ApiRegister(s, c)
  \/ \E s \in Shipments, c \in Conns : ApiRemove(s, c)
  \/ \E s \in Shipments, st \in PublishStatuses : ApiNotify(s, st)
  \/ \E c \in Conns : WsClosing(c)
  \/ \E c \in Conns : WsClose(c)
  \/ \E c \in Conns : WsError(c)

SpecRegistry == Init /\ [][NextRegistry]_vars

\* -------------------------------------------------------------------- Spec
Next ==
  \/ StartListening
  \/ \E c \in Conns, q \in Requests : Connect(c, q[1], q[2])
  \/ \E c \in Conns : GateHandler(c)
  \/ \E c \in Conns : WsClosing(c)
  \/ \E c \in Conns : WsClose(c)
  \/ \E c \in Conns : WsError(c)
  \/ \E p \in PipelineProcs, s \in Shipments, st \in PipelineStatuses :
       UpdExecute(p, s, st, {})
  \/ \E p \in PipelineProcs : TxBegin(p)
  \/ \E p \in PipelineProcs : TxUpdate(p)
  \/ \E p \in PipelineProcs : TxCommit(p)
  \/ \E k \in Pool : OnNotification(k)

Spec == Init /\ [][Next]_vars

\* ------------------------------------------------------------ SpecListener
NextListener ==
  \/ ApiStartListening
  \/ ApiStopListening
  \/ \E text \in NotifyTexts : Notify(text)
  \/ \E k \in Pool : OnNotification(k)
  \/ \E c \in Conns : ApiOpen(c)
  \/ \E s \in Shipments, c \in Conns : ApiRegister(s, c)

SpecListener == Init /\ [][NextListener]_vars

\* ------------------------------------------------------------------ SpecDb
\* two execute() calls at a time, over every request and lookup failure
NextDb ==
  \/ StartListening
  \/ \E p \in Procs, s \in ShipmentIds, st \in StatusIds, f \in UpdFaults :
       UpdExecute(p, s, st, f)
  \/ \E p \in Procs : TxBegin(p)
  \/ \E p \in Procs : TxUpdate(p)
  \/ \E p \in Procs : TxCommit(p)
  \/ \E s \in Shipments : Update(s)

SpecDb == Init /\ [][NextDb]_vars

\* ------------------------------------------------------------ SpecTracking
NextTracking ==
  \E s \in ShipmentIds, u \in Principals, lk \in LookupOutcomes :
    Track(s, u, lk)

SpecTracking == Init /\ [][NextTracking]_vars

\* --------------------------------------------------------------- SpecQuote
NextQuote ==
  \/ \E request \in QuoteRequests, faults \in QuoteFaults :
       Quote(request, faults)
  \/ \E key \in DOMAIN cache : CacheExpire(key)
  \/ \E key \in DOMAIN cache : CacheCorrupt(key)

SpecQuote == Init /\ [][NextQuote]_vars

\* ------------------------------------------------------------------ claims
\* C1: a shipment id is a key of the connections mapping if and only if its
\* subscriber set is non-empty: no key ever maps to an empty set.
C1_NoEmptySet ==
  \A s \in ShipmentIds :
    s \in DOMAIN connections <=> Len(Clients(connections, s)) > 0

\* a key exists, was shared by two sockets, and one of them has been removed
C1_Witness ==
  \E s \in DOMAIN connections, c \in Conns :
    /\ Len(connections[s]) = 1
    /\ c \notin Range(connections[s])
    /\ s \in Range(wsListeners[c])
    /\ "s2" \notin DOMAIN connections
    /\ \E d \in Conns : "s2" \in Range(wsListeners[d])

\* C3: after notifyShipmentStatusUpdate(S, e) returns, every subscriber of S
\* whose connection was not open at send time, or whose send failed, has been
\* unregistered from S's subscriber set.
C3_PublishPrunesDead ==
  [][lastNotify'.n # lastNotify.n =>
       \A c \in Range(Clients(connections, lastNotify'.sid)) :
         (readyState[c] # "OPEN" \/ c \in lastNotify'.failed) =>
           c \notin Range(Clients(connections', lastNotify'.sid))]_vars

\* C4: in notifyShipmentStatusUpdate(S, e) every subscriber of S whose
\* connection is open and whose own send succeeds receives e, whatever happens
\* to the send to any other subscriber of S.
C4_FailureDoesNotBlockOthers ==
  [][lastNotify'.n # lastNotify.n =>
       \A c \in Range(Clients(connections, lastNotify'.sid)) :
         (readyState[c] = "OPEN" /\ c \notin lastNotify'.bad) =>
           inbox'[c] = Append(inbox[c], lastNotify'.frame)]_vars

\* C10: after register(S, sub); publish(S, event); unregister(S, sub);
\* publish(S, event2) with sub open throughout, sub has received exactly event,
\* once, and never event2 (rt counts the four calls: 2 after the first publish,
\* 3 after unregister, 4 after the second publish).
C10_RoundTrip ==
  \A c \in Conns :
    /\ rt[c].st = 1 => inbox[c] = <<>>
    /\ rt[c].st \in {2, 3, 4} => inbox[c] = <<rt[c].frame>>

\* the whole round trip has run on some socket
C10_Witness ==
  \E c \in Conns :
    /\ rt[c].st = 4
    /\ readyState[c] = "OPEN"
    /\ lastNotify.n >= 2
    /\ lastNotify.sid = rt[c].sid
    /\ lastNotify.frame # rt[c].frame

\* the route handler of socket c has run to its end
Settled(c) == gate[c].pc \in {"registered", "rejected"}
\* the authorization check of socket c failed: shipment absent or not owned
AuthFailed(g) == g.pc = "rejected" /\ g.found \in {"absent", "foreign"}

\* C2: once a connection has closed and nothing more can run for it (its
\* close event has been emitted, its route handler is finished), the registry
\* contains no entry for it.
C2_ClosedIsUnregistered ==
  \A c \in Conns :
    (readyState[c] = "CLOSED" /\ Settled(c)) => Registered(connections, c) = {}

\* C5: when the authorization check fails (shipment absent or owned by
\* someone else) the handler's step leaves the registry as it was, and the
\* rejected socket is in no subscriber set and has no close/error listener
\* (registerConnection was not called).
C5_RejectedNeverRegisters ==
  /\ [](\A c \in Conns :
          AuthFailed(gate[c]) =>
            Registered(connections, c) = {} /\ wsListeners[c] = <<>>)
  /\ [][\A c \in Conns :
          (gate[c].pc = "auth" /\ AuthFailed(gate'[c])) =>
            connections' = connections]_vars

\* an owner mismatch was rejected while the shipment had a subscriber
C5_Witness ==
  \E c \in Conns :
    /\ AuthFailed(gate[c])
    /\ gate[c].found = "foreign"
    /\ gate[c].shipmentId \in DOMAIN connections

\* C6: the connection is registered if and only if findById returned a
\* shipment whose userId equals the principal's id, whatever happens to the
\* later lookups of history, statuses and cities.
C6_AdmitsIffOwned ==
  \A c \in Conns :
    Settled(c) => (gate[c].pc = "registered" <=> gate[c].found = "owned")

\* C7 as stated: a subscriber that fails authorization receives a close frame
\* with code 1008 and no data message at all.
C7_NoDataOnRejection ==
  \A c \in Conns :
    AuthFailed(gate[c]) =>
      /\ inbox[c] = <<>>
      /\ closeFrame[c].code \in {0, 1008}

\* C7 amended: a subscriber that fails authorization and is still connected
\* receives exactly one data message, the error object carrying the reason,
\* and then the close frame 1008 with the same reason; one that has gone
\* receives nothing; no status message ever reaches it.
C7_ErrorThenClose ==
  \A c \in Conns :
    AuthFailed(gate[c]) =>
      \/ /\ closeFrame[c] = [code |-> 1008, reason |-> gate[c].message]
         /\ inbox[c] = <<ErrorFrame(gate[c].message)>>
      \/ /\ closeFrame[c].code = 0
         /\ inbox[c] = <<>>

\* an owner mismatch has been answered on a socket that was still open
C7_Witness ==
  \E c \in Conns :
    /\ AuthFailed(gate[c])
    /\ gate[c].error = "AuthorizationError"
    /\ closeFrame[c].code = 1008
    /\ Len(inbox[c]) = 1

\* C8: the status messages a subscriber receives for one shipment arrive in
\* the commit order of the updates (ev is the commit index of the update).
C8_CommitOrder ==
  \A c \in Conns :
    \A i, j \in DOMAIN inbox[c] :
      (/\ i < j
       /\ inbox[c][i].kind = "status"
       /\ inbox[c][j].kind = "status"
       /\ inbox[c][i].body["shipmentId"] = inbox[c][j].body["shipmentId"]) =>
        inbox[c][i].ev < inbox[c][j].ev

\* a subscriber has received two updates of its shipment
C8_Witness ==
  \E c \in Conns :
    /\ Len(inbox[c]) = 2
    /\ inbox[c][1].kind = "status"
    /\ inbox[c][2].kind = "status"
    /\ inbox[c][1].body["shipmentId"] = inbox[c][2].body["shipmentId"]
    /\ readyState[c] = "OPEN"

\* the status id and name a message carries, under either field naming
StatusIdOf(body) ==
  IF "newStatusId" \in DOMAIN body THEN body["newStatusId"]
  ELSE IF "statusId" \in DOMAIN body THEN body["statusId"]
  ELSE "missing"
StatusNameOf(body) ==
  IF "newStatusName" \in DOMAIN body THEN body["newStatusName"]
  ELSE IF "statusName" \in DOMAIN body THEN body["statusName"]
  ELSE <<"missing">>

\* the notification a step hands to the listeners
Handled ==
  LET k == CHOOSE k \in Pool : channel[k] # <<>> /\ channel'[k] = Tail(channel[k])
  IN Head(channel[k])

\* C9: for each committed status change handled by the listener (no send
\* failing), every registered subscriber of the shipment with an open
\* connection receives exactly one message, whose shipmentId is the
\* shipment's and whose status id and name are those the trigger wrote.
C9_OneMessagePerChange ==
  [][(lastNotify'.n # lastNotify.n /\ lastNotify'.failed = {}) =>
       \A c \in Range(Clients(connections, lastNotify'.sid)) :
         readyState[c] = "OPEN" =>
           /\ inbox'[c] = Append(inbox[c], lastNotify'.frame)
           /\ lastNotify'.frame.body["shipmentId"] = lastNotify'.sid
           /\ StatusIdOf(lastNotify'.frame.body) =
                Handled.payload.obj["statusId"]
           /\ StatusNameOf(lastNotify'.frame.body) =
                Handled.payload.obj["statusName"]]_vars

\* C11: when distinct open sockets have each been registered for the same
\* shipment id, in whatever order the registrations ran and whatever ran
\* between them, a publish for that shipment in which every send succeeds
\* gives each of them exactly one message, the published one (rt[c].st = 1:
\* c was registered once, is open, and nothing was published to it yet).
C11_EachReceivesOne ==
  [][(lastNotify'.n # lastNotify.n /\ lastNotify'.bad = {}) =>
       \A c \in Conns :
         (rt[c].st = 1 /\ rt[c].sid = lastNotify'.sid) =>
           /\ inbox[c] = <<>>
           /\ inbox'[c] = <<lastNotify'.frame>>]_vars

\* both sockets, registered for one shipment with the later-opened one first,
\* hold the one published message
C11_Witness ==
  \E s \in Shipments :
    /\ s \in DOMAIN connections
    /\ connections[s] = <<"c2", "c1">>
    /\ \A c \in Conns : rt[c].st = 2 /\ rt[c].sid = s
    /\ rt["c1"].frame = rt["c2"].frame
    /\ \A c \in Conns : inbox[c] = <<rt[c].frame>>

\* C12: removeConnection(S, sub) with sub not in S's subscriber set (S not a
\* key, sub never registered for S, or sub already removed by its close or
\* error listener) returns the registry unchanged, and applying
\* removeConnection twice gives what applying it once gives.
C12_RemoveAbsentIsNoOp ==
  \A s \in ShipmentIds, c \in Conns :
    LET once == removeConnection(connections, s, c) IN
    /\ c \notin Range(Clients(connections, s)) => once = connections
    /\ removeConnection(once, s, c) = once

\* a socket was removed from a shared set by its close listener, the other
\* subscriber is still there, and another shipment id is not a key
C12_Witness ==
  \E s \in Shipments, c, d \in Conns :
    /\ readyState[c] = "CLOSED"
    /\ s \in Range(wsListeners[c])
    /\ s \in DOMAIN connections
    /\ c \notin Range(connections[s])
    /\ d \in Range(connections[s])
    /\ \E t \in Shipments : t \notin DOMAIN connections

C14_OneSubscription ==
  /\ Cardinality({k \in listenOn : handlers[k] > 0}) <= 1
  /\ \A k \in listenOn : handlers[k] <= 1

\* C15: when pg.connect() or the LISTEN query fails, the promise of
\* startListening() rejects and the listener holds no client.
C15_StartFailsFast ==
  [][(lastCall'.n # lastCall.n /\ lastCall'.op = "start"
        /\ lastCall'.outcome # "ok") =>
       (lastCall'.promise = "rejected" /\ client' = NoClient)]_vars

\* C16: stopListening() called without a client changes nothing; called with
\* one, it leaves the listener without a client, the client released and its
\* session no longer listening, whether or not UNLISTEN succeeded.
C16_StopEndsNotListening ==
  [][(lastCall'.n # lastCall.n /\ lastCall'.op = "stop") =>
       IF client = NoClient
       THEN UNCHANGED <<client, listenOn, handlers, leased>>
       ELSE /\ client' = NoClient
            /\ client \notin leased'
            /\ client \notin listenOn']_vars

\* a payload that is not a ShipmentStatusEvent: not JSON, empty, or a document
\* without shipmentId or without a status id under either field naming
Malformed(text) ==
  LET p == JSONparse(text) IN
  \/ ~p.ok
  \/ "shipmentId" \notin DOMAIN p.value
  \/ DOMAIN p.value \cap {"statusId", "newStatusId"} = {}

\* C17: handling a notification whose payload is malformed sends nothing to
\* any subscriber.
C17_MalformedDropped ==
  [][\A k \in Pool :
       (/\ channel[k] # <<>>
        /\ channel'[k] = Tail(channel[k])
        /\ Malformed(Head(channel[k]).payload)) => inbox' = inbox]_vars

\* C18: execute() with originCityId equal to destinationCityId fails with
\* SameOriginDestinationCityError whatever the cache holds, having made no
\* cache read, no city or rate lookup and no cache write, and leaves the
\* cache as it was.
C18_SameCityRejectedFirst ==
  /\ [](lastQuote.n > 0 =>
          (lastQuote.request.originCityId = lastQuote.request.destinationCityId
             => /\ lastQuote.outcome = SameOriginDestinationCityError
                /\ lastQuote.calls = <<>>))
  /\ [][(/\ lastQuote'.n # lastQuote.n
         /\ lastQuote'.request.originCityId =
              lastQuote'.request.destinationCityId) => cache' = cache]_vars

\* a same-city request was rejected while the cache held quotes
C18_Witness ==
  /\ lastQuote.n > 0
  /\ lastQuote.request.originCityId = lastQuote.request.destinationCityId
  /\ lastQuote.outcome = SameOriginDestinationCityError
  /\ DOMAIN cache # {}

\* the latest call computed its quote: cache miss, both cities and the rate found
QuotedOnMiss ==
  /\ lastQuote.n > 0
  /\ lastQuote.outcome.ok
  /\ \E i \in DOMAIN lastQuote.calls :
       lastQuote.calls[i].op = "rate.findByZoneIds"
\* l*w*h/2500 rounded up, in whole kilograms, and the price of the route
VolumetricKg(request) ==
  Ceil(request.packageLengthCm * request.packageWidthCm
         * request.packageHeightCm, 2500)
PriceOf(request) ==
  findByZoneIds(cityZoneId(request.originCityId),
                cityZoneId(request.destinationCityId)).pricePerKg

C21_WarmCacheIdempotent ==
  [][(/\ lastQuote.n > 0
      /\ lastQuote'.n = lastQuote.n + 1
      /\ lastQuote'.request = lastQuote.request
      /\ lastQuote.outcome.ok
      /\ Len(lastQuote.calls) = 5
      /\ lastQuote.faults = {}
      /\ ~lastQuote.aged
      /\ lastQuote'.faults = {}) =>
       /\ lastQuote'.outcome = lastQuote.outcome
       /\ lastQuote'.calls =
            <<Call("cache.get", cacheKey(lastQuote.request))>>
       /\ cache' = cache]_vars

\* the second of two calls was answered from the cache
C21_Witness ==
  /\ lastQuote.n = 2
  /\ lastQuote.outcome.ok
  /\ Len(lastQuote.calls) = 1
  /\ lastQuote.faults = {}
  /\ ~lastQuote.aged
  /\ cacheKey(lastQuote.request) \in DOMAIN cache

\* C22: whatever the cache holds and whichever of its calls fail (get throws,
\* the value read does not parse, set throws), a call whose lookups do not
\* fail returns what it returns over an empty, working cache: the same result
\* or the same error.
C22_CacheNeverDecides ==
  [][(/\ lastQuote'.n # lastQuote.n
      /\ lastQuote'.faults \subseteq {"cacheGet", "cacheSet"}) =>
       lastQuote'.outcome =
         quoteExecute(lastQuote'.request, EmptyCache, {}).outcome]_vars

\* a quote was computed over an entry that does not parse, and the write of
\* the new entry failed
C22_Witness ==
  /\ lastQuote.n > 0
  /\ lastQuote.outcome.ok
  /\ "cacheSet" \in lastQuote.faults
  /\ ~lastQuote.aged
  /\ cacheKey(lastQuote.request) \in DOMAIN cache
  /\ cache[cacheKey(lastQuote.request)] = InvalidText

\* the calls of a computed quote, in order
ExpectedCalls(q) ==
  <<Call("cache.get", cacheKey(q)),
    Call("city.findById", q.originCityId),
    Call("city.findById", q.destinationCityId),
    Call("rate.findByZoneIds",
         <<cityZoneId(q.originCityId), cityZoneId(q.destinationCityId)>>),
    Call("cache.set", cacheKey(q))>>

\* C23: on a miss the calls are the cache read, the origin city, the
\* destination city, the rate for (origin zone, destination zone), in this
\* order; the call ends at the first lookup that fails or finds nothing, with
\* that error or the NotFound of that lookup; a failed quote makes no cache
\* write and leaves the cache as it was.
C23_LookupOrder ==
  /\ [](Len(lastQuote.calls) >= 2 =>
          LET q == lastQuote.request
              n == Len(lastQuote.calls)
              f == lastQuote.faults
              o == lastQuote.outcome
              rate == findByZoneIds(cityZoneId(q.originCityId),
                                    cityZoneId(q.destinationCityId))
          IN /\ lastQuote.calls = SubSeq(ExpectedCalls(q), 1, n)
             /\ n = 2 <=> ("findOrigin" \in f \/ q.originCityId \notin Cities)
             /\ n = 2 => o = IF "findOrigin" \in f THEN Thrown
                             ELSE NotFoundError("Origin city not found")
             /\ n = 3 => /\ "findDestination" \in f
                            \/ q.destinationCityId \notin Cities
                         /\ o = IF "findDestination" \in f THEN Thrown
                                ELSE NotFoundError("Destination city not found")
             /\ n = 4 => /\ "findRate" \in f \/ ~rate.found
                         /\ o = IF "findRate" \in f THEN Thrown
                                ELSE NotFoundError(
                                  "Shipping rate not found for the specified route")
             /\ n = 5 <=> o.ok)
  /\ [][(lastQuote'.n # lastQuote.n /\ ~lastQuote'.outcome.ok) =>
          cache' = cache]_vars

\* a quote failed for want of a rate, after both cities were found, while the
\* cache held other quotes
C23_Witness ==
  /\ Len(lastQuote.calls) = 4
  /\ lastQuote.faults = {}
  /\ lastQuote.outcome.error = "NotFoundError"
  /\ DOMAIN cache # {}

\* a step that is one UpdateShipmentStatus.execute call
ExecStep ==
  \/ lastExec'.calls # lastExec.calls
  \/ lastExec'.faults # lastExec.faults
  \/ \E p \in Procs : upd[p].pc = "idle" /\ upd'[p].pc = "call"

\* C24: a call whose target status is the status the shipment has resolves
\* after the two lookups without calling updateStatus, and changes nothing in
\* the database: no row, no history row, no notification, no transaction.
C24_SameStatusNoOp ==
  [][(/\ ExecStep
      /\ lastExec'.faults = {}
      /\ lastExec'.shipmentId \in Shipments
      /\ lastExec'.newStatusId \in StatusTypes
      /\ current[lastExec'.shipmentId] = lastExec'.newStatusId) =>
       /\ lastExec'.outcome = Void
       /\ lastExec'.calls =
            <<Call("shipment.findById", lastExec'.shipmentId),
              Call("status.findById", lastExec'.newStatusId)>>
       /\ UNCHANGED dbVars]_vars

\* a call asked for the status the shipment had reached by an earlier update
C24_Witness ==
  /\ lastExec.shipmentId \in Shipments
  /\ lastExec.newStatusId # InitialStatus
  /\ current[lastExec.shipmentId] = lastExec.newStatusId
  /\ Len(lastExec.calls) = 2
  /\ lastExec.outcome.ok

\* C25: a call fails with NotFound after the shipment lookup alone when the
\* shipment is absent, with NotFound after both lookups when the status is
\* absent, and with the lookup's error when a lookup throws; a failed call
\* changes nothing in the database and never calls updateStatus; updateStatus
\* is called, once and with (shipmentId, newStatusId), exactly when both
\* exist and the status differs from the current one.
C25_ErrorPathsFrame ==
  [][ExecStep =>
       LET e == lastExec'
           findShipment == Call("shipment.findById", e.shipmentId)
           findStatus == Call("status.findById", e.newStatusId)
           updateStatus ==
             Call("shipment.updateStatus", <<e.shipmentId, e.newStatusId>>)
           invoked == \E i \in DOMAIN e.calls :
                        e.calls[i].op = "shipment.updateStatus"
           shipmentOk == "findShipment" \notin e.faults
                         /\ e.shipmentId \in Shipments
       IN /\ "findShipment" \in e.faults =>
               e.outcome = Thrown /\ e.calls = <<findShipment>>
          /\ ("findShipment" \notin e.faults /\ e.shipmentId \notin Shipments) =>
               /\ e.outcome = NotFoundError("Shipment not found")
               /\ e.calls = <<findShipment>>
          /\ (shipmentOk /\ "findStatus" \in e.faults) =>
               e.outcome = Thrown /\ e.calls = <<findShipment, findStatus>>
          /\ (shipmentOk /\ "findStatus" \notin e.faults
                /\ e.newStatusId \notin StatusTypes) =>
               /\ e.outcome = NotFoundError("Shipment status not found")
               /\ e.calls = <<findShipment, findStatus>>
          /\ ~e.outcome.ok => ~invoked /\ UNCHANGED dbVars
          /\ invoked <=> /\ shipmentOk
                         /\ "findStatus" \notin e.faults
                         /\ e.newStatusId \in StatusTypes
                         /\ current[e.shipmentId] # e.newStatusId
          /\ invoked =>
               /\ e.calls = <<findShipment, findStatus, updateStatus>>
               /\ nUpdates' = nUpdates + 1
               /\ \E p \in Procs :
                    /\ upd[p].pc = "idle"
                    /\ upd'[p].pc = "call"
                    /\ upd'[p].shipmentId = e.shipmentId
                    /\ upd'[p].newStatusId = e.newStatusId
                    /\ \A q \in Procs \ {p} : upd'[q] = upd[q]
               /\ UNCHANGED <<current, history, rowLock, clock, channel,
                              nCommits>>
          /\ ~invoked => UNCHANGED dbVars]_vars

\* a call for a status that does not exist failed while another call's
\* transaction was in progress
C25_Witness ==
  /\ Len(lastExec.calls) = 2
  /\ ~lastExec.outcome.ok
  /\ lastExec.outcome.message = "Shipment status not found"
  /\ \E p \in Procs : upd[p].pc = "updated"

\* C26: the history rows of a shipment carry non-decreasing timestamps in the
\* order they were written, and so do the notifications of a shipment in the
\* order a listening session receives them.
C26_TimestampsMonotonic ==
  /\ \A i, j \in DOMAIN history :
       (i < j /\ history[i].shipmentId = history[j].shipmentId) =>
         history[i].timestamp <= history[j].timestamp
  /\ \A k \in Pool : \A i, j \in DOMAIN channel[k] :
       (/\ i < j
        /\ channel[k][i].payload.obj.shipmentId =
             channel[k][j].payload.obj.shipmentId) =>
         channel[k][i].payload.obj.timestamp <=
           channel[k][j].payload.obj.timestamp

\* the two calls in progress asked for the same status of the same shipment
\* after reading the shipment at the same point of its history, and both
\* have returned
DuplicatesDone(p, q) ==
  /\ p # q
  /\ upd[p].pc = "idle"
  /\ upd[q].pc = "idle"
  /\ upd[p].shipmentId \in Shipments
  /\ upd[p].shipmentId = upd[q].shipmentId
  /\ upd[p].newStatusId = upd[q].newStatusId
  /\ upd[p].seen = upd[q].seen

\* C28: when two concurrent calls for the same shipment and the same new
\* status both read the old status and both call updateStatus, exactly one
\* history row is written and exactly one notification is emitted, and each
\* listening session receives exactly one.
C28_DuplicateOneEvent ==
  \A p, q \in Procs :
    DuplicatesDone(p, q) =>
      LET s == upd[p].shipmentId
          X == upd[p].newStatusId
          before == upd[p].seen
          rows == {i \in DOMAIN history :
                     /\ i > before
                     /\ history[i].shipmentId = s
                     /\ history[i].statusId = X}
      IN /\ Cardinality(rows) = 1
         /\ Len(history) = before + 1
         /\ nCommits = before - Cardinality(Shipments) + 1
         /\ \A k \in listenOn :
              Cardinality({i \in DOMAIN channel[k] :
                             /\ channel[k][i].ev > before - Cardinality(Shipments)
                             /\ channel[k][i].payload.obj.shipmentId = s
                             /\ channel[k][i].payload.obj.statusId = X}) = 1

\* both duplicate calls ran their transaction to the end while a session was
\* listening
C28_Witness ==
  /\ DuplicatesDone("p1", "p2")
  /\ upd["p1"].start > 0
  /\ upd["p2"].start > 0
  /\ listenOn # {}

\* C27: a tracking request for a shipment that does not exist fails with
\* NotFound and one for a shipment of another user fails with
\* AuthorizationError, in both cases after the shipment lookup alone (no
\* history, status or city lookup); details are returned only to the user
\* the shipment belongs to.
C27_OwnerOnly ==
  lastTrack.n > 0 =>
    LET t == lastTrack
        read == t.lk["shipment"] = "ok"
    IN /\ (read /\ t.shipmentId \notin Shipments) =>
            /\ t.outcome = NotFoundError("Shipment not found")
            /\ t.lookups = <<"shipment.findById">>
       /\ (read /\ t.shipmentId \in Shipments
             /\ ShipmentUserId(t.shipmentId) # t.userId) =>
            /\ t.outcome.error = "AuthorizationError"
            /\ t.lookups = <<"shipment.findById">>
       /\ t.outcome.ok =>
            /\ t.shipmentId \in Shipments
            /\ ShipmentUserId(t.shipmentId) = t.userId
            /\ Len(t.lookups) = 6

\* a user asked for the details of another user's shipment, and was refused
C27_Witness ==
  /\ lastTrack.n > 0
  /\ lastTrack.shipmentId \in Shipments
  /\ ShipmentUserId(lastTrack.shipmentId) # lastTrack.userId
  /\ lastTrack.lk["shipment"] = "ok"
  /\ lastTrack.outcome.error = "AuthorizationError"

\* the frame a step appended to the inbox of c, if it appended a status frame
GotStatus(c) ==
  /\ Len(inbox'[c]) > Len(inbox[c])
  /\ inbox'[c][Len(inbox'[c])].kind = "status"

\* C29: a socket holds a status message of shipment S only if the route
\* handler admitted it for S and its principal owns S; a publish for S sends
\* only to open sockets that are in the set of S when it runs, to no socket
\* outside that set, and changes no set; registering a socket delivers
\* nothing to it, so it never sees an event published before.
C29_DeliveryIsolation ==
  /\ [](\A c \in Conns : \A i \in DOMAIN inbox[c] :
          inbox[c][i].kind = "status" =>
            /\ gate[c].pc = "registered"
            /\ gate[c].found = "owned"
            /\ ShipmentUserId(gate[c].shipmentId) = gate[c].userId
            /\ inbox[c][i].body["shipmentId"] = gate[c].shipmentId)
  /\ [][\A c \in Conns :
          GotStatus(c) =>
            LET S == inbox'[c][Len(inbox'[c])].body["shipmentId"]
                set == Range(Clients(connections, S))
            IN /\ c \in set
               /\ readyState[c] = "OPEN"
               /\ gate[c].pc = "registered"
               /\ \A d \in Conns \ set : inbox'[d] = inbox[d]]_vars
  /\ [][lastNotify'.n # lastNotify.n => connections' = connections]_vars
  /\ [][\A c \in Conns :
          (gate[c].pc # "registered" /\ gate'[c].pc = "registered") =>
            inbox'[c] = inbox[c]]_vars

\* two sockets watch different shipments; one has its shipment's event, the
\* other has nothing
C29_Witness ==
  /\ gate["c1"].pc = "registered"
  /\ gate["c2"].pc = "registered"
  /\ gate["c1"].shipmentId # gate["c2"].shipmentId
  /\ readyState["c2"] = "OPEN"
  /\ \E i \in DOMAIN inbox["c1"] : inbox["c1"][i].kind = "status"
  /\ inbox["c2"] = <<>>

\* the latest history row of a shipment
LatestRow(s) ==
  LET rows == {i \in DOMAIN history : history[i].shipmentId = s}
  IN history[CHOOSE i \in rows : \A j \in rows : j <= i]

\* C30: the history only grows at its end, every shipment has a history row,
\* and the row written last for a shipment carries the shipment's current
\* status.
C30_HistoryMatchesCurrent ==
  /\ [](\A s \in Shipments :
          /\ \E i \in DOMAIN history : history[i].shipmentId = s
          /\ LatestRow(s).statusId = current[s])
  /\ [][/\ Len(history') >= Len(history)
        /\ SubSeq(history', 1, Len(history)) = history]_vars

\* a shipment has moved twice and another transaction has rewritten a row
C30_Witness ==
  /\ \E s \in Shipments :
       Cardinality({i \in DOMAIN history : history[i].shipmentId = s}) >= 2
  /\ \E s \in Shipments : current[s] # InitialStatus
  /\ clock > nCommits
  /\ \A p \in Procs : upd[p].pc = "idle"

====
